---- MODULE Spec2Model ----
(***************************************************************************)
(* holltwr: conventions (Tag, SpecialTag, Options, Tier, Convention) and   *)
(* the compact annotation parser (AnnotationParser).                       *)
(*                                                                         *)
(* A Python str is a sequence of one-character strings (option keys and   *)
(* function names, which are only compared or have "-" replaced, are       *)
(* sequences of words; tier names are atoms); a dict is a sequence of      *)
(* [key, val] entries in insertion order; None is a value of its own.  A   *)
(* raised exception is a result whose exc field is its class.  The meta    *)
(* section of a document has no part in loading or parsing and is left out.*)
(***************************************************************************)
EXTENDS Integers, Sequences, FiniteSets, TLC

VARIABLES
    data,       \* the convention document handed to Convention.fromdata
    loads,      \* outcomes of the successive Convention.fromdata(data) calls
    parser,     \* the AnnotationParser, or NoParser before it is constructed
    result,     \* outcome of the last AnnotationParser.parse call
    tagobjs,    \* the Tag objects that exist
    tagop,      \* the last Tag operation: its name, its argument, the exception raised
    calls,      \* the parse calls in progress: each caller's position and locals
    tg,         \* the TextGrid open in memory: tier name -> entries, in tier order
    disk,       \* the TextGrid files on disk, by path
    run         \* the split command in progress: its position, arguments, exception

vars == <<data, loads, parser, result, tagobjs, tagop, calls, tg, disk, run>>

\* what the parse calls and the split command own
parvars == <<calls>>
gridvars == <<tg, disk, run>>

----------------------------------------------------------------------------
(* Bounds *)

MaxLen == 4         \* longest generated compact string
MaxLoads == 2       \* Convention.fromdata calls on one document
MaxTagObjs == 3     \* Tag objects alive at once
MaxInputLen == 2    \* longest string offered as a Tag input

----------------------------------------------------------------------------
(* Python values *)

None == [type |-> "NoneType"]
PyStr(s) == [type |-> "str", val |-> s]
PyInt(n) == [type |-> "int", val |-> n]

_is_str(x) == x.type = "str"

\* x or "" for an optional str
OrEmpty(x) == IF _is_str(x) /\ x.val # <<>> THEN x.val ELSE <<>>

\* str(x) for an optional str
ToStr(x) == IF _is_str(x) THEN x.val ELSE <<"N", "o", "n", "e">>

\* c in s, for a one-character c
Contains(s, c) == \E i \in 1..Len(s) : s[i] = c

\* s.find(c) + 1: position of the first c in s, 0 when there is none
Find(s, c) ==
    IF Contains(s, c)
    THEN CHOOSE i \in 1..Len(s) : s[i] = c /\ \A j \in 1..(i - 1) : s[j] # c
    ELSE 0

\* s.rsplit(c, 1): the cut is made at the last c
Split1_last(s, c) ==
    LET k == CHOOSE i \in 1..Len(s) : s[i] = c /\ \A j \in (i + 1)..Len(s) : s[j] # c
    IN  <<SubSeq(s, 1, k - 1), SubSeq(s, k + 1, Len(s))>>

\* s.split(c, 1) for s containing c
Split1(s, c) ==
    LET k == Find(s, c)
    IN  <<SubSeq(s, 1, k - 1), SubSeq(s, k + 1, Len(s))>>

\* s.split(c)
RECURSIVE Split(_, _)
Split(s, c) ==
    IF ~Contains(s, c) THEN <<s>>
    ELSE LET k == Find(s, c)
         IN  <<SubSeq(s, 1, k - 1)>> \o Split(SubSeq(s, k + 1, Len(s)), c)

\* sep.join(strs)
RECURSIVE Join(_, _)
Join(sep, strs) ==
    IF Len(strs) = 0 THEN <<>>
    ELSE IF Len(strs) = 1 THEN strs[1]
    ELSE strs[1] \o sep \o Join(sep, Tail(strs))

\* s.replace(old, new) for one-character old and new
Replace(s, old, new) == [i \in 1..Len(s) |-> IF s[i] = old THEN new ELSE s[i]]

----------------------------------------------------------------------------
(* dict: entries in insertion order, keys unique *)

Keys(d) == [i \in 1..Len(d) |-> d[i].key]
KeySet(d) == {d[i].key : i \in 1..Len(d)}
HasKey(d, k) == \E i \in 1..Len(d) : d[i].key = k
Get(d, k) == d[CHOOSE i \in 1..Len(d) : d[i].key = k].val

\* d[k] = v
Put(d, k, v) ==
    IF HasKey(d, k)
    THEN [i \in 1..Len(d) |-> IF d[i].key = k THEN [key |-> k, val |-> v] ELSE d[i]]
    ELSE Append(d, [key |-> k, val |-> v])

\* d.pop(k) leaves d without k
Del(d, k) == SelectSeq(d, LAMBDA e : e.key # k)

\* ChainMap(first, second)[k]
ChainGet(first, second, k) == IF HasKey(first, k) THEN Get(first, k) ELSE Get(second, k)
ChainHas(first, second, k) == HasKey(first, k) \/ HasKey(second, k)

----------------------------------------------------------------------------
(* conventions.Tag *)

\* the check with len(input) > 1 for its length test
Tag_input_check_atmost1(input) ==
    IF ~_is_str(input) THEN "TypeError"
    ELSE IF Len(input.val) > 1 THEN "ValueError"
    ELSE ""

\* the check of the Tag.input setter: "" when the assignment goes through
Tag_input_check(input) ==
    IF ~_is_str(input) THEN "TypeError"
    ELSE IF ~(Len(input.val) = 1) THEN "ValueError"
    ELSE ""

\* Tag.input = input on an existing Tag
Tag_input_setter(tag, input) ==
    LET e == Tag_input_check(input)
    IN  IF e # "" THEN [exc |-> e, obj |-> tag]
        ELSE [exc |-> "", obj |-> [tag EXCEPT !._input = input.val]]

\* Tag.output = output on an existing Tag
Tag_output_setter(tag, output) ==
    IF ~_is_str(output) THEN [exc |-> "TypeError", obj |-> tag]
    ELSE [exc |-> "", obj |-> [tag EXCEPT !._output = output.val]]

\* Tag(input, output, description): obj is the new Tag when exc = ""
Tag_init(input, output, description) ==
    LET e == Tag_input_check(input)
    IN  IF e # "" THEN [exc |-> e]
        ELSE IF ~_is_str(output) THEN [exc |-> "TypeError"]
        ELSE [exc |-> "",
              obj |-> [_input |-> input.val, _output |-> output.val,
                       description |-> OrEmpty(description)]]

Functions == {<<"part-separator">>, <<"comment">>}
PartSeparatorFn == <<"part-separator">>
CommentFn == <<"comment">>

\* SpecialTag(input, function, output, preserve)
SpecialTag_init(input, function, output, preserve) ==
    LET t == Tag_init(input, output, function)
    IN  IF t.exc # "" THEN t
        ELSE IF function.val \notin Functions THEN [exc |-> "TypeError"]
        ELSE [exc |-> "",
              obj |-> [_input |-> t.obj._input, _output |-> t.obj._output,
                       description |-> t.obj.description,
                       _function |-> function.val, _preserve |-> preserve]]

----------------------------------------------------------------------------
(* conventions.Options *)

CompactTierKey == <<"compact", "-", "tier">>
RetainCompactKey == <<"retain", "-", "compact">>
CaseSensitiveKey == <<"case", "-", "sensitive">>
TagSeparatorKey == <<"tag", "-", "separator">>

\* the keyword names of the Options dataclass fields
OptionFields ==
    {Replace(k, "-", "_") :
        k \in {CompactTierKey, RetainCompactKey, CaseSensitiveKey, TagSeparatorKey}}

\* the new name Options.fromdata gives to a key of the options section
RenamedKey(key) == Replace(key, "-", "_")

\* for key in keys: data[key.replace("-", "_")] = data.pop(key)
RECURSIVE RenameKeys(_, _)
RenameKeys(d, keys) ==
    IF keys = <<>> THEN d
    ELSE LET key == Head(keys)
             v == Get(d, key)
         IN  RenameKeys(Put(Del(d, key), RenamedKey(key), v), Tail(keys))

\* the value of a dataclass field given as keyword, else its default
Field(kw, name, default) ==
    IF HasKey(kw, Replace(name, "-", "_")) THEN Get(kw, Replace(name, "-", "_"))
    ELSE default

\* Options.fromdata(data): data is the dict after the call (renamed in place)
Options_fromdata(d) ==
    LET kw == RenameKeys(d, Keys(d))
    IN  IF ~(KeySet(kw) \subseteq OptionFields) \/ ~HasKey(kw, RenamedKey(CompactTierKey))
        THEN [exc |-> "TypeError", data |-> kw]
        ELSE [exc |-> "", data |-> kw,
              obj |-> [compact_tier |-> Field(kw, CompactTierKey, ""),
                       retain_compact |-> Field(kw, RetainCompactKey, TRUE),
                       case_sensitive |-> Field(kw, CaseSensitiveKey, TRUE),
                       tag_separator |-> Field(kw, TagSeparatorKey, <<",">>)]]

----------------------------------------------------------------------------
(* convention.schema.json, evaluated by Convention.fromdata *)

\* the (location, message) pairs of the failures of the schema evaluation
SchemaErrors(d) ==
    (IF HasKey(d.options, CompactTierKey) THEN <<>>
     ELSE << <<"/properties/options/required", "compact-tier missing">> >>)
    \o
    SelectSeq([i \in 1..Len(d.special_tags) |->
                  IF d.special_tags[i].val.function \in Functions THEN <<>>
                  ELSE <<"/properties/special-tags/function/enum", d.special_tags[i].key>>],
              LAMBDA e : e # <<>>)
    \o
    SelectSeq([i \in 1..Len(d.special_tags) |->
                  IF Len(d.special_tags[i].key) = 1 THEN <<>>
                  ELSE <<"/properties/special-tags/propertyNames", d.special_tags[i].key>>],
              LAMBDA e : e # <<>>)
    \o
    SelectSeq([i \in 1..Len(d.tags) |->
                  IF Len(d.tags[i].key) = 1 THEN <<>>
                  ELSE <<"/properties/tags/propertyNames", d.tags[i].key>>],
              LAMBDA e : e # <<>>)

----------------------------------------------------------------------------
(* errors.JSONValidationError *)

PyList(items) == [type |-> "list", val |-> items]
PyDict(entries) == [type |-> "dict", val |-> entries]

\* list(result.collect_errors()): one failing schema node per failure
ScopeList(d) ==
    PyList([i \in 1..Len(SchemaErrors(d)) |->
               [type |-> "Scope", keywordLocation |-> SchemaErrors(d)[i][1],
                error |-> SchemaErrors(d)[i][2]]])

\* JSONValidationError.collect_errors(errors)
RECURSIVE collect_errors(_)
RECURSIVE CollectSub(_)
collect_errors(errors) ==
    IF errors.type # "dict" THEN <<>>
    ELSE (IF HasKey(errors.val, "error")
          THEN << <<Get(errors.val, "keywordLocation"), Get(errors.val, "error")>> >>
          ELSE <<>>)
         \o (IF HasKey(errors.val, "errors") /\ Get(errors.val, "errors").type = "list"
             THEN CollectSub(Get(errors.val, "errors").val)
             ELSE <<>>)

\* the loop over errors["errors"]: error_list.extend(collect_errors(suberror))
CollectSub(suberrors) ==
    IF suberrors = <<>> THEN <<>>
    ELSE collect_errors(Head(suberrors)) \o CollectSub(Tail(suberrors))

\* Convention._raise_validation_status(result): the JSONValidationError
\* raised for a document that is not valid
_raise_validation_status(d) ==
    [exc |-> "JSONValidationError", errors |-> collect_errors(ScopeList(d)), data |-> d]

----------------------------------------------------------------------------
(* conventions.Convention *)

\* the objects built by the constructor calls of one section, in order
BuildSpecialTags(section) ==
    [i \in 1..Len(section) |->
        SpecialTag_init(PyStr(section[i].key), PyStr(section[i].val.function),
                        PyStr(section[i].val.output), section[i].val.preserve)]

BuildTags(section) ==
    [i \in 1..Len(section) |->
        Tag_init(PyStr(section[i].key), PyStr(section[i].val[1]),
                 IF Len(section[i].val) > 1 THEN PyStr(section[i].val[2]) ELSE None)]

\* the dict label -> object of a section whose constructor calls all succeeded
AsDict(section, built) ==
    [i \in 1..Len(section) |-> [key |-> section[i].key, val |-> built[i].obj]]

\* the exception of the first failing constructor call, "" when none fails
FirstExc(built) ==
    IF \E i \in 1..Len(built) : built[i].exc # ""
    THEN built[CHOOSE i \in 1..Len(built) :
                  built[i].exc # "" /\ \A j \in 1..(i - 1) : built[j].exc = ""].exc
    ELSE ""

\* reports the first label of a tier that has an undefined label
FirstUndefined_first(labels, tags, special_tags) ==
    IF \E i \in 1..Len(labels) : ~ChainHas(tags, special_tags, labels[i]) THEN 1 ELSE 0

\* position of the first label of a tier that is in neither namespace, or 0
FirstUndefined(labels, tags, special_tags) ==
    IF \E i \in 1..Len(labels) : ~ChainHas(tags, special_tags, labels[i])
    THEN CHOOSE i \in 1..Len(labels) :
            /\ ~ChainHas(tags, special_tags, labels[i])
            /\ \A j \in 1..(i - 1) : ChainHas(tags, special_tags, labels[j])
    ELSE 0

\* tier_tags after the inner loop: tier_tags[tag_label] = alltags[tag_label]
RECURSIVE TierTags(_, _, _, _)
TierTags(labels, tags, special_tags, acc) ==
    IF labels = <<>> THEN acc
    ELSE TierTags(Tail(labels), tags, special_tags,
                  Put(acc, Head(labels), ChainGet(tags, special_tags, Head(labels))))

\* the tiers dict, for a tiers section with no undefined label
BuildTiers(section, tags, special_tags) ==
    [i \in 1..Len(section) |->
        [key |-> section[i].key,
         val |-> [name |-> section[i].key,
                  content |-> TierTags(section[i].val, tags, special_tags, <<>>)]]]

\* position of the first tier that lists an undefined label, or 0
FirstBadTier(section, tags, special_tags) ==
    IF \E i \in 1..Len(section) : FirstUndefined(section[i].val, tags, special_tags) # 0
    THEN CHOOSE i \in 1..Len(section) :
            /\ FirstUndefined(section[i].val, tags, special_tags) # 0
            /\ \A j \in 1..(i - 1) : FirstUndefined(section[j].val, tags, special_tags) = 0
    ELSE 0

\* Convention.fromdata(d): data is the document after the call, obj the
\* Convention when exc = ""
Convention_fromdata(d) ==
    LET errors == SchemaErrors(d)
        o == Options_fromdata(d.options)
        d1 == [d EXCEPT !.options = o.data]
        sbuilt == BuildSpecialTags(d.special_tags)
        tbuilt == BuildTags(d.tags)
        special_tags == AsDict(d.special_tags, sbuilt)
        tags == AsDict(d.tags, tbuilt)
        bad == FirstBadTier(d.tiers, tags, special_tags)
    IN  IF errors # <<>>
        THEN _raise_validation_status(d)
        ELSE IF o.exc # "" THEN [exc |-> o.exc, data |-> d1]
        ELSE IF FirstExc(sbuilt) # "" THEN [exc |-> FirstExc(sbuilt), data |-> d1]
        ELSE IF FirstExc(tbuilt) # "" THEN [exc |-> FirstExc(tbuilt), data |-> d1]
        ELSE IF bad # 0
        THEN [exc |-> "KeyError", data |-> d1,
              tier |-> d.tiers[bad].key,
              tag |-> d.tiers[bad].val[FirstUndefined(d.tiers[bad].val, tags, special_tags)]]
        ELSE [exc |-> "", data |-> d1,
              obj |-> [options |-> o.obj,
                       special_tags |-> special_tags,
                       tags |-> tags,
                       tiers |-> BuildTiers(d.tiers, tags, special_tags)]]

----------------------------------------------------------------------------
(* parser.AnnotationPart, AnnotationTier, AnnotationParse *)

\* AnnotationPart.join
AnnotationPart_join(part) == Join(part.separator, part.expanded)

\* AnnotationTier.join
AnnotationTier_join(tier) ==
    Join(tier.separator, [i \in 1..Len(tier.parts) |-> AnnotationPart_join(tier.parts[i])])

\* AnnotationParse.joined
joined(parse) ==
    [i \in 1..Len(parse.tiers) |->
        [key |-> parse.tiers[i].key, val |-> AnnotationTier_join(parse.tiers[i].val)]]

----------------------------------------------------------------------------
(* parser.AnnotationParser *)

Unset == [type |-> "unset"]
Attr(obj) == [type |-> "SpecialTag", obj |-> obj]

\* the attribute the convention setter leaves for one function: the last
\* special tag of the dict with that function, unset when there is none
MarkerFor(special_tags, function) ==
    LET hits == {i \in 1..Len(special_tags) : special_tags[i].val._function = function}
    IN  IF hits = {} THEN Unset
        ELSE Attr(special_tags[CHOOSE i \in hits : \A j \in hits : j <= i].val)

\* AnnotationParser(convention, filename)
AnnotationParser_init(convention, filename) ==
    [_convention |-> convention,
     _comment_marker |-> MarkerFor(convention.special_tags, CommentFn),
     _part_separator |-> MarkerFor(convention.special_tags, PartSeparatorFn),
     filename |-> filename]

\* x in s for strs: x occurs in s as a substring
IsSubstr(x, s) == \E i \in 1..(Len(s) - Len(x) + 1) : SubSeq(s, i, i + Len(x) - 1) = x

\* position of the first character of compact_part that is not a plain tag, or 0
FirstUnknown(p, compact_part) ==
    IF \E i \in 1..Len(compact_part) : ~HasKey(p._convention.tags, <<compact_part[i]>>)
    THEN CHOOSE i \in 1..Len(compact_part) :
            /\ ~HasKey(p._convention.tags, <<compact_part[i]>>)
            /\ \A j \in 1..(i - 1) : HasKey(p._convention.tags, <<compact_part[j]>>)
    ELSE 0

\* parse_part raising UnknownTagError(tag=ctag), without the filename
parse_part_nofile(p, compact_part) ==
    LET bad == FirstUnknown(p, compact_part)
    IN  IF bad # 0
        THEN [exc |-> "UnknownTagError", tag |-> <<compact_part[bad]>>, file |-> None,
              looked |-> SubSeq(compact_part, 1, bad)]
        ELSE [exc |-> "", looked |-> compact_part,
              etags |-> [i \in 1..Len(compact_part) |->
                            Get(p._convention.tags, <<compact_part[i]>>)._output]]

\* parse_part(compact_part); looked is the characters it looked up in tags
parse_part(p, compact_part) ==
    LET bad == FirstUnknown(p, compact_part)
    IN  IF bad # 0
        THEN [exc |-> "UnknownTagError", tag |-> <<compact_part[bad]>>, file |-> p.filename,
              looked |-> SubSeq(compact_part, 1, bad)]
        ELSE [exc |-> "", looked |-> compact_part,
              etags |-> [i \in 1..Len(compact_part) |->
                            Get(p._convention.tags, <<compact_part[i]>>)._output]]

\* is_pure_comment_tier(tier)
is_pure_comment_tier(p, tier) ==
    Len(tier.content) = 1 /\ Keys(tier.content) = <<p._comment_marker.obj._input>>

\* make_comment_str(comment)
make_comment_str(p, comment) == p._comment_marker.obj._output \o OrEmpty(comment)

\* make_comment_tier with str(comment) in place of (comment or "")
make_comment_tier_str(p, comment) ==
    [separator |-> p._part_separator.obj._output,
     parts |-> << [compact |-> ToStr(comment),
                   separator |-> p._convention.options.tag_separator,
                   expanded |-> <<p._comment_marker.obj._output \o ToStr(comment)>>] >>,
     type |-> "COMMENT"]

\* make_comment_tier(comment)
make_comment_tier(p, comment) ==
    [separator |-> p._part_separator.obj._output,
     parts |-> << [compact |-> ToStr(comment),
                   separator |-> p._convention.options.tag_separator,
                   expanded |-> <<make_comment_str(p, comment)>>] >>,
     type |-> "COMMENT"]

\* Appended adding the comment fragment only when a comment was supplied
Appended_ifcomment(p, tier, ctag, base_part, comment) ==
    (IF IsSubstr(ctag, base_part)
     THEN << [c |-> ctag, e |-> Get(tier.content, ctag)._output] >> ELSE <<>>)
    \o
    (IF ctag = p._comment_marker.obj._input /\ comment # None
     THEN << [c |-> p._comment_marker.obj._input, e |-> make_comment_str(p, comment)] >>
     ELSE <<>>)

\* what one ctag of tier.content appends to compact_part (c) and expanded_part (e)
Appended(p, tier, ctag, base_part, comment) ==
    (IF IsSubstr(ctag, base_part)
     THEN << [c |-> ctag, e |-> Get(tier.content, ctag)._output] >> ELSE <<>>)
    \o
    (IF ctag = p._comment_marker.obj._input
     THEN << [c |-> p._comment_marker.obj._input, e |-> make_comment_str(p, comment)] >>
     ELSE <<>>)

\* compact_part and expanded_part after the loop over the given ctags
RECURSIVE Expand(_, _, _, _, _)
Expand(p, tier, ctags, base_part, comment) ==
    IF ctags = <<>> THEN <<>>
    ELSE Appended(p, tier, Head(ctags), base_part, comment)
         \o Expand(p, tier, Tail(ctags), base_part, comment)

\* the AnnotationPart built by looping over the characters of base_part
\* (then over the comment marker) instead of over tier.content
GeneralPart_inputorder(p, tier, base_part, comment) ==
    LET ctags == SelectSeq([i \in 1..Len(base_part) |-> <<base_part[i]>>],
                           LAMBDA k : HasKey(tier.content, k))
                 \o SelectSeq(Keys(tier.content), LAMBDA k : k = p._comment_marker.obj._input)
        app == Expand(p, tier, ctags, base_part, comment)
    IN  [compact |-> Join(<<>>, [i \in 1..Len(app) |-> app[i].c]),
         separator |-> p._convention.options.tag_separator,
         expanded |-> [i \in 1..Len(app) |-> app[i].e]]

\* the AnnotationPart make_general_tier builds for one key of base_parts
GeneralPart(p, tier, base_part, comment) ==
    LET app == Expand(p, tier, Keys(tier.content), base_part, comment)
    IN  [compact |-> Join(<<>>, [i \in 1..Len(app) |-> app[i].c]),
         separator |-> p._convention.options.tag_separator,
         expanded |-> [i \in 1..Len(app) |-> app[i].e]]

\* make_general_tier joining the parts with the part separator's input
make_general_tier_input(p, tier, base_parts, comment) ==
    [separator |-> p._part_separator.obj._input,
     parts |-> [i \in 1..Len(base_parts) |->
                   GeneralPart(p, tier, base_parts[i].key, comment)],
     type |-> "GENERAL"]

\* make_general_tier(tier, base_parts, comment)
make_general_tier(p, tier, base_parts, comment) ==
    [separator |-> p._part_separator.obj._output,
     parts |-> [i \in 1..Len(base_parts) |->
                   GeneralPart(p, tier, base_parts[i].key, comment)],
     type |-> "GENERAL"]

\* make_tiers(base_parts, comment)
make_tiers(p, base_parts, comment) ==
    LET tiers == p._convention.tiers
    IN  [i \in 1..Len(tiers) |->
            [key |-> tiers[i].key,
             val |-> IF is_pure_comment_tier(p, tiers[i].val)
                     THEN make_comment_tier(p, comment)
                     ELSE make_general_tier(p, tiers[i].val, base_parts, comment)]]

\* {part: self.parse_part(part) for part in compact_parts}, all calls succeeding
RECURSIVE BaseParts(_, _, _)
BaseParts(p, compact_parts, acc) ==
    IF compact_parts = <<>> THEN acc
    ELSE BaseParts(p, Tail(compact_parts),
                   Put(acc, Head(compact_parts), parse_part(p, Head(compact_parts)).etags))

\* position of the first part whose parse_part raises, or 0
FirstFailing(p, compact_parts) ==
    IF \E i \in 1..Len(compact_parts) : parse_part(p, compact_parts[i]).exc # ""
    THEN CHOOSE i \in 1..Len(compact_parts) :
            /\ parse_part(p, compact_parts[i]).exc # ""
            /\ \A j \in 1..(i - 1) : parse_part(p, compact_parts[j]).exc = ""
    ELSE 0

\* the characters looked up by the parse_part calls on parts 1..n
RECURSIVE Looked(_, _, _)
Looked(p, compact_parts, n) ==
    IF n = 0 THEN <<>>
    ELSE Looked(p, compact_parts, n - 1) \o parse_part(p, compact_parts[n]).looked

\* remainder and comment after the comment split of parse
CommentSplit(p, compact) ==
    LET marker == p._comment_marker.obj._input
    IN  IF IsSubstr(marker, compact)
        THEN [remainder |-> Split1(compact, marker[1])[1],
              comment |-> PyStr(Split1(compact, marker[1])[2])]
        ELSE [remainder |-> compact, comment |-> None]

\* parse(compact): obj is the AnnotationParse when exc = ""; remainder,
\* comment, compact_parts are the locals, lookups the tag lookups made
parse(p, compact) ==
    IF p._comment_marker = Unset THEN [exc |-> "AttributeError", compact |-> compact]
    ELSE
    LET cs == CommentSplit(p, compact)
    IN  IF p._part_separator = Unset
        THEN [exc |-> "AttributeError", compact |-> compact]
        ELSE
        LET compact_parts == Split(cs.remainder, p._part_separator.obj._input[1])
            failing == FirstFailing(p, compact_parts)
            base_parts == BaseParts(p, compact_parts, <<>>)
        IN  IF failing # 0
            THEN [exc |-> "UnknownTagError", compact |-> compact,
                  remainder |-> cs.remainder, comment |-> cs.comment,
                  compact_parts |-> compact_parts,
                  lookups |-> Looked(p, compact_parts, failing),
                  tag |-> parse_part(p, compact_parts[failing]).tag,
                  file |-> parse_part(p, compact_parts[failing]).file]
            ELSE [exc |-> "", compact |-> compact,
                  remainder |-> cs.remainder, comment |-> cs.comment,
                  compact_parts |-> compact_parts,
                  lookups |-> Looked(p, compact_parts, Len(compact_parts)),
                  obj |-> [compact |-> compact,
                           tiers |-> make_tiers(p, base_parts, cs.comment)]]

----------------------------------------------------------------------------
(* Inputs: convention documents, compact strings, Tag arguments *)

Researcher == <<"R", "e", "s", "e", "a", "r", "c", "h", "e", "r">>
Participant == <<"P", "a", "r", "t", "i", "c", "i", "p", "a", "n", "t">>

Entry(k, v) == [key |-> k, val |-> v]

\* special-tags entries
Dash == Entry(<<"-">>, [function |-> CommentFn, output |-> <<>>, preserve |-> FALSE])
Plus == Entry(<<"+">>, [function |-> PartSeparatorFn, output |-> <<" ", "/", " ">>,
                        preserve |-> FALSE])
HashComment == Entry(<<"#">>, [function |-> CommentFn, output |-> <<"#", ":">>,
                               preserve |-> TRUE])
HashSeparator == Entry(<<"#">>, [function |-> PartSeparatorFn, output |-> <<"|">>,
                                 preserve |-> FALSE])
SpecialEntries == {Dash, Plus, HashComment, HashSeparator}

\* every special-tags section made of these entries (keys of an object are unique)
SpecialSections ==
    {s \in UNION {[1..n -> SpecialEntries] : n \in 0..3} :
        \A i, j \in 1..Len(s) : i # j => s[i].key # s[j].key}

DashPlus == <<Dash, Plus>>

\* tags sections
TagsAX == <<Entry(<<"a">>, <<Researcher>>), Entry(<<"x">>, <<Participant, <<"p">>>>)>>
TagsABC == <<Entry(<<"a">>, <<Researcher>>), Entry(<<"b">>, <<<<"B">>>>),
             Entry(<<"c">>, <<<<"C">>>>)>>
TagsAXDash == TagsAX \o <<Entry(<<"-">>, <<<<"D">>>>)>>
TagSections == {TagsAX, TagsABC, TagsAXDash}

\* tiers sections
TiersSpeaker == <<Entry("speaker", <<<<"a">>, <<"x">>>>)>>
TiersSpeakerNotes ==
    <<Entry("speaker", <<<<"a">>, <<"x">>>>), Entry("notes", <<<<"-">>>>)>>
TierSections ==
    {TiersSpeaker,
     TiersSpeakerNotes,
     <<Entry("notes", <<<<"-">>, <<"-">>>>), Entry("speaker", <<<<"x">>, <<"a">>, <<"x">>>>)>>,
     <<Entry("speaker", <<<<"a">>, <<"-">>, <<"x">>>>)>>,
     <<Entry("speaker", <<<<"a">>, <<"b">>, <<"c">>>>)>>,
     <<Entry("speaker", <<<<"a">>>>), Entry("other", <<<<"x">>, <<"q">>, <<"a">>>>)>>,
     <<Entry("marks", <<<<"+">>, <<"a">>>>)>>}

\* options sections
OptDefault == <<Entry(CompactTierKey, "manual")>>
OptFull == <<Entry(TagSeparatorKey, <<";">>), Entry(CompactTierKey, "manual"),
             Entry(RetainCompactKey, FALSE)>>
OptionsSections == {OptDefault, OptFull}

Doc(o, s, t, r) == [options |-> o, special_tags |-> s, tags |-> t, tiers |-> r]

SpecExample == Doc(OptDefault, DashPlus, TagsAX, TiersSpeaker)

\* documents that do not conform to the schema: no compact-tier (an empty
\* options section); a function
\* outside the enumeration together with a two-character tag name
DocNoCompactTier ==
    Doc(<<>>, DashPlus, TagsAX, TiersSpeaker)
DocTwoFailures ==
    Doc(OptDefault,
        <<Dash, Plus, Entry(<<"#">>, [function |-> <<"overlap-separator">>, output |-> <<>>,
                                      preserve |-> FALSE])>>,
        TagsAX \o <<Entry(<<"a", "b">>, <<<<"AB">>>>)>>,
        <<Entry("speaker", <<<<"a">>, <<"q">>>>)>>)
InvalidDocs == {DocNoCompactTier, DocTwoFailures}

Docs ==
    InvalidDocs \cup
    {Doc(OptDefault, s, TagsAX, TiersSpeaker) : s \in SpecialSections}
    \cup {Doc(OptDefault, s, TagsAX, TiersSpeakerNotes) :
             s \in {<<Dash, HashComment, Plus>>, <<HashComment, Dash, Plus>>}}
    \cup {Doc(OptDefault, <<HashComment, Plus>>, TagsAX,
              <<Entry("speaker", <<<<"a">>, <<"#">>, <<"x">>>>)>>)}
    \cup {Doc(o, DashPlus, t, r) : o \in OptionsSections, t \in TagSections, r \in TierSections}

Alphabet == {"a", "x", "-", "+"}

AxCoughing == <<"a", "x", "-", "c", "o", "u", "g", "h", "i", "n", "g">>

\* compact strings with characters outside Alphabet
Samples ==
    {AxCoughing, <<"c", "a">>, <<"a", "c">>, <<"c", "b", "a", "+", "b", "-", "c">>,
     <<"a", "#", "x">>, <<"x", "#", "-", "+", "#">>, <<"a", "-", "#", "a">>,
     <<"q", "a">>, <<"a", "+", "q", "c">>}

Compacts == UNION {[1..n -> Alphabet] : n \in 0..MaxLen} \cup Samples

Filenames == {None, PyStr(<<"f", ".", "T", "e", "x", "t", "G", "r", "i", "d">>)}

TagInputs ==
    {PyStr(s) : s \in UNION {[1..n -> {"a", "-"}] : n \in 0..MaxInputLen}} \cup {PyInt(1), None}
TagOutputs == {PyStr(<<>>), PyStr(<<"R">>), None}

NoTagOp == [op |-> "", arg |-> None, exc |-> ""]

----------------------------------------------------------------------------
(* Loading a document, binding a parser, parsing *)

Init ==
    /\ data \in Docs
    /\ loads = <<>>
    /\ parser = None
    /\ result = None
    /\ tagobjs = <<>>
    /\ tagop = NoTagOp
    /\ calls = None
    /\ tg = None
    /\ disk = None
    /\ run = None

\* Convention.fromdata(data)
Load ==
    /\ Len(loads) < MaxLoads
    /\ LET r == Convention_fromdata(data)
       IN  /\ data' = r.data
           /\ loads' = Append(loads, r)
    /\ UNCHANGED <<parser, result, tagobjs, tagop, parvars, gridvars>>

\* parser = AnnotationParser(convention, filename) for a loaded convention
NewParser ==
    /\ \E i \in 1..Len(loads), filename \in Filenames :
          /\ loads[i].exc = ""
          /\ parser' = AnnotationParser_init(loads[i].obj, filename)
    /\ result' = None
    /\ UNCHANGED <<data, loads, tagobjs, tagop, parvars, gridvars>>

\* result = parser.parse(compact)
Parse ==
    /\ parser # None
    /\ result = None
    /\ \E compact \in Compacts : result' = parse(parser, compact)
    /\ UNCHANGED <<data, loads, parser, tagobjs, tagop, parvars, gridvars>>

\* the caller is done with the result (or has handled the exception)
Consume ==
    /\ result # None
    /\ result' = None
    /\ UNCHANGED <<data, loads, parser, tagobjs, tagop, parvars, gridvars>>

Next == Load \/ NewParser \/ Parse \/ Consume

Spec == Init /\ [][Next]_vars

----------------------------------------------------------------------------
(* Constructing Tags and assigning to their properties *)

InitTag ==
    /\ data = SpecExample
    /\ loads = <<>>
    /\ parser = None
    /\ result = None
    /\ tagobjs = <<>>
    /\ tagop = NoTagOp
    /\ calls = None
    /\ tg = None
    /\ disk = None
    /\ run = None

\* Tag(input, output)
TagNew ==
    /\ Len(tagobjs) < MaxTagObjs
    /\ \E input \in TagInputs, output \in TagOutputs :
          LET r == Tag_init(input, output, None)
          IN  /\ tagop' = [op |-> "Tag", arg |-> input, exc |-> r.exc]
              /\ tagobjs' = IF r.exc = "" THEN Append(tagobjs, r.obj) ELSE tagobjs
    /\ UNCHANGED <<data, loads, parser, result, parvars, gridvars>>

\* tag.input = input
TagSetInput ==
    /\ \E i \in 1..Len(tagobjs), input \in TagInputs :
          LET r == Tag_input_setter(tagobjs[i], input)
          IN  /\ tagop' = [op |-> "input", arg |-> input, exc |-> r.exc]
              /\ tagobjs' = [tagobjs EXCEPT ![i] = r.obj]
    /\ UNCHANGED <<data, loads, parser, result, parvars, gridvars>>

\* tag.output = output
TagSetOutput ==
    /\ \E i \in 1..Len(tagobjs), output \in TagOutputs :
          LET r == Tag_output_setter(tagobjs[i], output)
          IN  /\ tagop' = [op |-> "output", arg |-> output, exc |-> r.exc]
              /\ tagobjs' = [tagobjs EXCEPT ![i] = r.obj]
    /\ UNCHANGED <<data, loads, parser, result, parvars, gridvars>>

NextTag == TagNew \/ TagSetInput \/ TagSetOutput

SpecTag == InitTag /\ [][NextTag]_vars

----------------------------------------------------------------------------
(* Properties of parse *)

\* a parse call has returned an AnnotationParse
Parsed == result # None /\ result.exc = ""

\* a parse call got as far as the comment split
Split1Done == result # None /\ result.exc # "AttributeError"

Marker == parser._comment_marker.obj._input[1]
Separator == parser._part_separator.obj._input[1]

\* the positions of s that hold c
Positions(s, c) == {k \in 1..Len(s) : s[k] = c}

\* s without its characters c
Without(s, c) == SelectSeq(s, LAMBDA ch : ch # c)

IsPrefix(s, t) == Len(s) <= Len(t) /\ SubSeq(t, 1, Len(s)) = s

\* the tiers of the bound convention and of the returned AnnotationParse
ConvTier(i) == parser._convention.tiers[i].val
ParsedTier(i) == result.obj.tiers[i].val

\* C1: when the compact string holds the comment marker, first at position k,
\* the remainder is the substring before k and the comment the substring
\* after k, verbatim; the parts are cut out of the remainder alone and only
\* characters of the remainder are looked up as tags.
C1_CommentSplit ==
    Split1Done =>
        \A k \in Positions(result.compact, Marker) :
            (\A j \in Positions(result.compact, Marker) : k <= j) =>
                /\ result.remainder = SubSeq(result.compact, 1, k - 1)
                /\ result.comment = PyStr(SubSeq(result.compact, k + 1, Len(result.compact)))
                /\ Join(<<Separator>>, result.compact_parts) = result.remainder
                /\ IsPrefix(result.lookups, Without(result.remainder, Separator))

\* C1 witness: a parse whose comment holds a further comment marker and a
\* part separator, after a non-empty remainder
C1_Witness ==
    /\ Parsed
    /\ result.remainder # <<>>
    /\ _is_str(result.comment)
    /\ Contains(result.comment.val, Marker)
    /\ Contains(result.comment.val, Separator)

\* C2: a general tier holds one AnnotationPart for every part of the
\* remainder split on the part separator, in the same order.
C2_OnePartPerSplitPart ==
    Parsed =>
        \A i \in 1..Len(result.obj.tiers) :
            ParsedTier(i).type = "GENERAL" =>
                /\ Len(ParsedTier(i).parts) = Len(result.compact_parts)
                /\ \A j \in 1..Len(ParsedTier(i).parts) :
                      ParsedTier(i).parts[j]
                          = GeneralPart(parser, ConvTier(i), result.compact_parts[j], result.comment)

\* position of the tag character c in the declared content of a tier
DeclaredPos(tier, c) == CHOOSE n \in 1..Len(tier.content) : tier.content[n].key = <<c>>

\* C3: in every part of a general tier the fragments follow the order in
\* which their tag characters are declared in the tier's content; declared
\* [a, b, c] and part "ca" give [output(a), output(c)].
C3_DeclaredOrder ==
    Parsed =>
        \A i \in 1..Len(result.obj.tiers) :
            ParsedTier(i).type = "GENERAL" =>
                /\ \A j \in 1..Len(ParsedTier(i).parts) :
                      LET part == ParsedTier(i).parts[j]
                      IN  /\ Len(part.expanded) = Len(part.compact)
                          /\ \A m \in 1..Len(part.compact) :
                                /\ HasKey(ConvTier(i).content, <<part.compact[m]>>)
                                /\ part.expanded[m] =
                                      IF <<part.compact[m]>> = <<Marker>>
                                      THEN make_comment_str(parser, result.comment)
                                      ELSE Get(ConvTier(i).content, <<part.compact[m]>>)._output
                          /\ \A m, n \in 1..Len(part.compact) :
                                m < n => DeclaredPos(ConvTier(i), part.compact[m])
                                            < DeclaredPos(ConvTier(i), part.compact[n])
                /\ (/\ Keys(ConvTier(i).content) = <<<<"a">>, <<"b">>, <<"c">>>>
                    /\ result.compact = <<"c", "a">>)
                   => ParsedTier(i).parts[1].expanded
                         = <<Get(parser._convention.tags, <<"a">>)._output,
                             Get(parser._convention.tags, <<"c">>)._output>>

\* C3 witness: declared [a, b, c], parsed "ca"
C3_Witness ==
    /\ Parsed
    /\ result.compact = <<"c", "a">>
    /\ \E i \in 1..Len(result.obj.tiers) :
          /\ Keys(ConvTier(i).content) = <<<<"a">>, <<"b">>, <<"c">>>>
          /\ ParsedTier(i).parts[1].expanded = <<Researcher, <<"C">>>>

\* the positions of the remainder holding a character that is neither the
\* part separator nor a plain tag
UnknownPositions ==
    {k \in 1..Len(result.remainder) :
        /\ result.remainder[k] # Separator
        /\ ~HasKey(parser._convention.tags, <<result.remainder[k]>>)}

\* C4: when a part holds a character that is not a plain tag, parse raises
\* UnknownTagError with the leftmost such character and the parser's
\* filename, and returns no AnnotationParse.
C4_UnknownTag ==
    (Split1Done /\ UnknownPositions # {}) =>
        /\ result.exc = "UnknownTagError"
        /\ \E k \in UnknownPositions :
              /\ \A j \in UnknownPositions : k <= j
              /\ result.tag = <<result.remainder[k]>>
        /\ result.file = parser.filename
        /\ "obj" \notin DOMAIN result

\* C4 witness: the character raised is a special tag and not a plain tag, it
\* comes after a known tag and before another unknown character, and the
\* parser has a filename
C4_Witness ==
    /\ Split1Done
    /\ result.exc = "UnknownTagError"
    /\ HasKey(parser._convention.special_tags, result.tag)
    /\ Len(result.lookups) > 1
    /\ Cardinality(UnknownPositions) > 1
    /\ parser.filename # None

\* C5: a tier declared as exactly the comment special tag comes out with
\* type COMMENT and one AnnotationPart, and renders as the comment-marker
\* output followed by the comment text (by nothing when there is no comment).
C5_PureCommentTier ==
    Parsed =>
        \A i \in 1..Len(result.obj.tiers) :
            Keys(ConvTier(i).content) = <<<<Marker>>>> =>
                /\ ParsedTier(i).type = "COMMENT"
                /\ Len(ParsedTier(i).parts) = 1
                /\ AnnotationTier_join(ParsedTier(i))
                      = parser._comment_marker.obj._output
                        \o (IF result.comment = None THEN <<>> ELSE result.comment.val)

\* C5 witness: a pure comment tier, several parts, a non-empty comment
C5_Witness ==
    /\ Parsed
    /\ Len(result.compact_parts) > 1
    /\ _is_str(result.comment) /\ result.comment.val # <<>>
    /\ \E i \in 1..Len(result.obj.tiers) : Keys(ConvTier(i).content) = <<<<Marker>>>>

\* the convention of the end-to-end example
ExampleConvention == Convention_fromdata(SpecExample).obj

\* C6: a general tier renders as its parts' texts with the part separator's
\* output between them, a part's text being its fragments with
\* Options.tag_separator between them; in the example convention
\* "ax-coughing" gives "Researcher,Participant" and "a+x" gives
\* "Researcher / Participant".
C6_Rendering ==
    Parsed =>
        /\ \A i \in 1..Len(result.obj.tiers) :
              LET t == ParsedTier(i)
                  out == parser._part_separator.obj._output
                  tsep == parser._convention.options.tag_separator
                  Text(j) == IF Len(t.parts[j].expanded) = 0 THEN <<>>
                             ELSE IF Len(t.parts[j].expanded) = 1 THEN t.parts[j].expanded[1]
                             ELSE t.parts[j].expanded[1] \o tsep \o t.parts[j].expanded[2]
              IN  (t.type = "GENERAL" /\ \A j \in 1..Len(t.parts) : Len(t.parts[j].expanded) <= 2) =>
                      /\ Len(t.parts) = 1 => AnnotationTier_join(t) = Text(1)
                      /\ Len(t.parts) = 2 => AnnotationTier_join(t) = Text(1) \o out \o Text(2)
                      /\ Len(t.parts) = 3 =>
                            AnnotationTier_join(t) = Text(1) \o out \o Text(2) \o out \o Text(3)
        /\ parser._convention = ExampleConvention =>
              /\ result.compact = AxCoughing =>
                    Get(joined(result.obj), "speaker") = Researcher \o <<",">> \o Participant
              /\ result.compact = <<"a", "+", "x">> =>
                    Get(joined(result.obj), "speaker")
                        = Researcher \o <<" ", "/", " ">> \o Participant

\* C6 witness: "a+x" parsed with the example convention
C6_Witness ==
    /\ Parsed
    /\ parser._convention = ExampleConvention
    /\ result.compact = <<"a", "+", "x">>
    /\ Len(ParsedTier(1).parts) = 2

----------------------------------------------------------------------------
(* Properties of Convention.fromdata *)

\* the special tags of a loaded convention that have the given function
WithFunction(convention, function) ==
    {i \in 1..Len(convention.special_tags) :
        convention.special_tags[i].val._function = function}

\* C7: a document loads only if it defines exactly one comment special tag
\* and exactly one part-separator special tag, so every parser is built
\* with both markers.
C7_ExactlyOneOfEach ==
    /\ \A i \in 1..Len(loads) :
          loads[i].exc = "" =>
              /\ Cardinality(WithFunction(loads[i].obj, CommentFn)) = 1
              /\ Cardinality(WithFunction(loads[i].obj, PartSeparatorFn)) = 1
    /\ parser # None => (parser._comment_marker # Unset /\ parser._part_separator # Unset)

\* the (tier, label) pairs of the document that name a label defined in
\* neither tags nor special-tags
Undefined ==
    UNION {{<<data.tiers[t].key, data.tiers[t].val[l]>> :
               l \in {n \in 1..Len(data.tiers[t].val) :
                         data.tiers[t].val[n]
                             \notin KeySet(data.tags) \cup KeySet(data.special_tags)}} :
           t \in 1..Len(data.tiers)}

JoinedUnder(convention, compact) ==
    LET r == parse(AnnotationParser_init(convention, None), compact)
    IN  IF r.exc = "" THEN joined(r.obj) ELSE r.exc

\* C9: a valid document loads both times it is loaded, and the two
\* Conventions give the same per-tier text for every compact string.
C9_ReloadIdentical ==
    (Len(loads) >= 2 /\ loads[1].exc = "") =>
        /\ loads[2].exc = ""
        /\ \A compact \in Compacts :
              JoinedUnder(loads[1].obj, compact) = JoinedUnder(loads[2].obj, compact)

----------------------------------------------------------------------------
(* Properties of Tag *)

\* C10: every existing Tag has an input of exactly one character: a
\* construction or an assignment with any other input raises, and an
\* operation that raises leaves the existing Tags as they were.
C10_SingleCharInput ==
    /\ [](/\ \A i \in 1..Len(tagobjs) : Len(tagobjs[i]._input) = 1
          /\ (/\ tagop.op \in {"Tag", "input"}
              /\ ~(_is_str(tagop.arg) /\ Len(tagop.arg.val) = 1))
             => tagop.exc # "")
    /\ [][tagop'.exc # "" => tagobjs' = tagobjs]_vars

\* C10 witness: a two-character input was assigned to an existing Tag and
\* refused
C10_Witness ==
    /\ Len(tagobjs) > 0
    /\ tagop.op = "input"
    /\ _is_str(tagop.arg) /\ Len(tagop.arg.val) = 2
    /\ tagop.exc = "ValueError"

----------------------------------------------------------------------------
(* Properties of the validation error *)

\* C11: the error raised for a document that fails schema validation
\* carries one (location, message) pair for every failure of the schema
\* evaluation, so its errors list is not empty.
C11_AllErrorsCarried ==
    \A i \in 1..Len(loads) :
        loads[i].exc = "JSONValidationError" =>
            /\ loads[i].errors # <<>>
            /\ loads[i].errors = SchemaErrors(loads[i].data)

----------------------------------------------------------------------------
(* Interleaved parse calls on one parser *)

MaxParLen == 2      \* longest generated compact string of an interleaved call

\* the threads calling parser.parse
Callers == {"t1", "t2"}

GridFile == PyStr(<<"f", ".", "T", "e", "x", "t", "G", "r", "i", "d">>)

\* conventions the calls run against: the example, a tier holding the comment
\* character, a pure comment tier, and one that defines no comment tag
ParDocs ==
    {SpecExample,
     Doc(OptDefault, DashPlus, TagsAX, <<Entry("speaker", <<<<"a">>, <<"-">>, <<"x">>>>)>>),
     Doc(OptFull, DashPlus, TagsAX, TiersSpeakerNotes),
     Doc(OptDefault, <<Plus>>, TagsAX, TiersSpeaker)}

ParCompacts ==
    UNION {[1..n -> {"a", "-", "+"}] : n \in 0..MaxParLen}
    \cup {<<"a", "q">>, <<"x", "+", "a", "-", "n">>}

\* a caller that is not inside parse
Idle == [pc |-> "idle", compact |-> <<>>, remainder |-> <<>>, comment |-> None,
         compact_parts |-> <<>>, base_parts |-> <<>>, out |-> None]

\* what a caller of parse gets: the AnnotationParse or the exception raised
Returned(r) ==
    IF r.exc = "" THEN [exc |-> "", obj |-> r.obj]
    ELSE IF r.exc = "UnknownTagError" THEN [exc |-> r.exc, tag |-> r.tag, file |-> r.file]
    ELSE [exc |-> r.exc]

\* the locals of a parse call after its next statement, run on parser p
NextFrame(p, f) ==
    CASE f.pc = "split_comment" ->
            IF p._comment_marker = Unset
            THEN [f EXCEPT !.pc = "raised", !.out = [exc |-> "AttributeError"]]
            ELSE [f EXCEPT !.pc = "split_parts",
                           !.remainder = CommentSplit(p, f.compact).remainder,
                           !.comment = CommentSplit(p, f.compact).comment]
      [] f.pc = "split_parts" ->
            IF p._part_separator = Unset
            THEN [f EXCEPT !.pc = "raised", !.out = [exc |-> "AttributeError"]]
            ELSE [f EXCEPT !.pc = "parse_parts",
                           !.compact_parts = Split(f.remainder, p._part_separator.obj._input[1])]
      [] f.pc = "parse_parts" ->
            LET failing == FirstFailing(p, f.compact_parts)
            IN  IF failing # 0
                THEN [f EXCEPT !.pc = "raised",
                               !.out = [exc |-> "UnknownTagError",
                                        tag |-> parse_part(p, f.compact_parts[failing]).tag,
                                        file |-> parse_part(p, f.compact_parts[failing]).file]]
                ELSE [f EXCEPT !.pc = "make_tiers",
                               !.base_parts = BaseParts(p, f.compact_parts, <<>>)]
      [] f.pc = "make_tiers" ->
            [f EXCEPT !.pc = "returned",
                      !.out = [exc |-> "",
                               obj |-> [compact |-> f.compact,
                                        tiers |-> make_tiers(p, f.base_parts, f.comment)]]]

\* one statement of parse that also keeps the string being parsed on self
parse_step_keeps(p, f) ==
    [self |-> [p EXCEPT !.filename = PyStr(f.compact)], frame |-> NextFrame(p, f)]

\* one statement of parse: the parser object and the call's locals after it
parse_step(p, f) == [self |-> p, frame |-> NextFrame(p, f)]

InitPar ==
    /\ \E d \in ParDocs :
          LET r == Convention_fromdata(d)
          IN  /\ data = r.data
              /\ loads = <<r>>
              /\ parser = AnnotationParser_init(r.obj, GridFile)
    /\ result = None
    /\ tagobjs = <<>>
    /\ tagop = NoTagOp
    /\ calls = [c \in Callers |-> Idle]
    /\ tg = None
    /\ disk = None
    /\ run = None

\* a caller enters parser.parse(compact)
ParCall(c) ==
    /\ calls[c].pc \in {"idle", "returned", "raised"}
    /\ \E compact \in ParCompacts :
          calls' = [calls EXCEPT ![c] = [Idle EXCEPT !.pc = "split_comment",
                                                     !.compact = compact]]
    /\ UNCHANGED <<data, loads, parser, result, tagobjs, tagop, gridvars>>

\* a caller inside parse runs its next statement
ParStep(c) ==
    /\ calls[c].pc \in {"split_comment", "split_parts", "parse_parts", "make_tiers"}
    /\ LET s == parse_step(parser, calls[c])
       IN  /\ parser' = s.self
           /\ calls' = [calls EXCEPT ![c] = s.frame]
    /\ UNCHANGED <<data, loads, result, tagobjs, tagop, gridvars>>

NextPar == \E c \in Callers : ParCall(c) \/ ParStep(c)

SpecPar == InitPar /\ [][NextPar]_vars

\* the parser as constructed, before any call
Parser0 == AnnotationParser_init(loads[1].obj, GridFile)

\* C12: however the calls of several callers interleave, a call that has
\* finished returned what parse returns for its string when run alone on the
\* parser as constructed, and no step of any call changes the parser (its
\* convention and its two markers), the loaded convention or the document.
C12_NoHiddenState ==
    /\ [](\A c \in Callers :
             calls[c].pc \in {"returned", "raised"} =>
                 calls[c].out = Returned(parse(Parser0, calls[c].compact)))
    /\ [][parser' = parser /\ loads' = loads /\ data' = data]_vars

\* one call has raised UnknownTagError while another call, on a different
\* string, is half-way through
C12_Witness ==
    \E c, o \in Callers :
        /\ c # o
        /\ calls[c].pc = "raised" /\ calls[c].out.exc = "UnknownTagError"
        /\ calls[o].pc = "make_tiers"
        /\ calls[o].compact # calls[c].compact
        /\ parser = Parser0

----------------------------------------------------------------------------
(* textgrids.TextGrid: an ordered dict of tier name -> [tierType, entryList]; *)
(* an Interval is [start, end, label], the entryList is kept sorted by start  *)

Interval(start, end, label) == [start |-> start, end |-> end, label |-> label]

TextGridError(message) == [exc |-> "TextGridError", message |-> message]

hastier(g, name) == HasKey(g, name)

hasintervaltier(g, name) == HasKey(g, name) /\ Get(g, name).tierType = "IntervalTier"

removetier(g, name) == Del(g, name)

\* update_interval(original) with no label given
update_interval_keep(original, label) ==
    Interval(original.start, original.end, original.label)

\* update_interval(original, label=label)
update_interval(original, label) == Interval(original.start, original.end, label)

\* the entries in order of start
RECURSIVE SortEntries(_)
SortEntries(entryList) ==
    IF entryList = <<>> THEN <<>>
    ELSE LET m == CHOOSE i \in 1..Len(entryList) :
                      \A j \in 1..Len(entryList) :
                          \/ entryList[i].start < entryList[j].start
                          \/ entryList[i].start = entryList[j].start /\ i <= j
         IN  <<entryList[m]>>
             \o SortEntries([k \in 1..(Len(entryList) - 1) |->
                                IF k < m THEN entryList[k] ELSE entryList[k + 1]])

\* tier.insertEntry(entry, collisionMode="replace"): the entries that overlap
\* the new one are deleted, the new one is appended, the list is sorted
insertEntry(entryList, entry) ==
    SortEntries(Append(SelectSeq(entryList,
                                 LAMBDA e : ~(e.start < entry.end /\ entry.start < e.end)),
                       entry))

\* the relabelling loop of duplicatetier over the first n entries
RECURSIVE Relabelled(_, _)
Relabelled(entryList, n) ==
    IF n = 0 THEN entryList
    ELSE LET sofar == Relabelled(entryList, n - 1)
         IN  insertEntry(sofar, update_interval(sofar[n], <<>>))

\* duplicatetier(src_name, new_name, markers=markers, labels=labels)
duplicatetier(g, src_name, new_name, markers, labels) ==
    IF ~HasKey(g, src_name) THEN [exc |-> "TextGridError", tg |-> g]
    ELSE IF HasKey(g, new_name) THEN [exc |-> "TextGridError", tg |-> g]
    ELSE LET src == Get(g, src_name)
             new_entries == IF markers THEN src.entryList ELSE <<>>
             entries == IF markers /\ ~labels
                        THEN Relabelled(new_entries, Len(new_entries))
                        ELSE new_entries
         IN  [exc |-> "",
              tg |-> Append(g, [key |-> new_name,
                                val |-> [tierType |-> src.tierType, entryList |-> entries]])]

----------------------------------------------------------------------------
(* utils: check_compact_tier, prepare_textgrid, process_textgrid *)

\* check_compact_tier(tg, name): the exception raised, or ""
check_compact_tier(g, name) ==
    IF ~hastier(g, name) THEN "TextGridError"
    ELSE IF ~hasintervaltier(g, name) THEN "TextGridError"
    ELSE ""

\* the first loop of prepare_textgrid over the given tier names
RECURSIVE RemoveExisting(_, _, _)
RemoveExisting(g, tier_names, allow_override) ==
    IF tier_names = <<>> THEN [exc |-> "", tg |-> g]
    ELSE IF hastier(g, Head(tier_names))
         THEN IF allow_override
              THEN RemoveExisting(removetier(g, Head(tier_names)), Tail(tier_names),
                                  allow_override)
              ELSE [exc |-> "TextGridError", tg |-> g]
         ELSE RemoveExisting(g, Tail(tier_names), allow_override)

\* the second loop of prepare_textgrid over the given tier names
RECURSIVE DuplicateAll(_, _, _)
DuplicateAll(g, compact_tier, tier_names) ==
    IF tier_names = <<>> THEN [exc |-> "", tg |-> g]
    ELSE LET r == duplicatetier(g, compact_tier, Head(tier_names), TRUE, FALSE)
         IN  IF r.exc # "" THEN r
             ELSE DuplicateAll(r.tg, compact_tier, Tail(tier_names))

\* prepare_textgrid with one loop that checks and duplicates tier by tier
RECURSIVE CheckAndDuplicate(_, _, _, _)
CheckAndDuplicate(g, compact_tier, tier_names, allow_override) ==
    IF tier_names = <<>> THEN [exc |-> "", tg |-> g]
    ELSE IF hastier(g, Head(tier_names)) /\ ~allow_override
         THEN [exc |-> "TextGridError", tg |-> g]
         ELSE LET r == duplicatetier(removetier(g, Head(tier_names)), compact_tier,
                                     Head(tier_names), TRUE, FALSE)
              IN  IF r.exc # "" THEN r
                  ELSE CheckAndDuplicate(r.tg, compact_tier, Tail(tier_names),
                                         allow_override)

prepare_textgrid_oneloop(g, convention, allow_override) ==
    IF check_compact_tier(g, convention.options.compact_tier) # ""
    THEN [exc |-> "TextGridError", tg |-> g]
    ELSE CheckAndDuplicate(g, convention.options.compact_tier, Keys(convention.tiers),
                           allow_override)

\* prepare_textgrid(tg, convention, allow_override=allow_override): the
\* exception raised (or "") and the TextGrid as the call leaves it
prepare_textgrid(g, convention, allow_override) ==
    IF check_compact_tier(g, convention.options.compact_tier) # ""
    THEN [exc |-> "TextGridError", tg |-> g]
    ELSE LET r == RemoveExisting(g, Keys(convention.tiers), allow_override)
         IN  IF r.exc # "" THEN r
             ELSE DuplicateAll(r.tg, convention.options.compact_tier,
                               Keys(convention.tiers))

\* the inner loop of process_textgrid: one insertEntry per parsed tier
RECURSIVE InsertParsed(_, _, _)
InsertParsed(g, compact_entry, parsed_tiers) ==
    IF parsed_tiers = <<>> THEN g
    ELSE LET name == Head(parsed_tiers).key
             target == Get(g, name)
             entry == update_interval(compact_entry,
                                      AnnotationTier_join(Head(parsed_tiers).val))
         IN  InsertParsed(Put(g, name, [target EXCEPT
                                           !.entryList = insertEntry(target.entryList, entry)]),
                          compact_entry, Tail(parsed_tiers))

\* one round of the outer loop of process_textgrid, on one compact entry
process_entry(g, p, compact_entry) ==
    LET r == parse(p, compact_entry.label)
    IN  IF r.exc # "" THEN [exc |-> r.exc, tg |-> g]
        ELSE [exc |-> "", tg |-> InsertParsed(g, compact_entry, r.obj.tiers)]

----------------------------------------------------------------------------
(* The split command: cli.split, cli._split_file, and a library caller of *)
(* process_textgrid                                                        *)

MaxIntervals == 2   \* intervals on the compact tier of a source TextGrid

NoPath == ""
Lart5Path == "./conventions/lart5.json"
MinePath == "mine.json"
ConvPaths == {Lart5Path, MinePath}
SourcePath == "in.TextGrid"
GridPaths == {SourcePath, "out.TextGrid"}

\* a convention that declares an output tier named like its compact tier
DocCompactDeclared ==
    Doc(OptDefault, DashPlus, TagsAX,
        <<Entry("speaker", <<<<"a">>, <<"x">>>>), Entry("manual", <<<<"x">>>>)>>)

\* the convention documents that can be lart5.json
GridDocs ==
    {SpecExample,
     Doc(OptFull, DashPlus, TagsAX, TiersSpeakerNotes),
     Doc(OptDefault, DashPlus, TagsAX, <<Entry("speaker", <<<<"a">>, <<"-">>, <<"x">>>>)>>),
     DocCompactDeclared,
     DocNoCompactTier}

MineDoc == Doc(OptDefault, DashPlus, TagsAX, <<Entry("mine", <<<<"x">>>>)>>)

\* labels of compact intervals
GridLabels == {<<"a", "x">>, <<"a", "+", "x", "-", "n">>, <<"q">>, <<>>}

\* interval k of a tier runs from k - 1 to k
EntryLists ==
    {[k \in 1..n |-> Interval(k - 1, k, ls[k])] :
        n \in 0..MaxIntervals, ls \in [1..MaxIntervals -> GridLabels]}

IntervalTier(entryList) == [tierType |-> "IntervalTier", entryList |-> entryList]

\* a tier the source file already has besides the compact tier
OldTier(name) == Entry(name, IntervalTier(<<Interval(0, 1, <<"o", "l", "d">>)>>))

SourceGrids ==
    {<<Entry("manual", IntervalTier(es))>> \o old :
        es \in EntryLists, old \in {<<>>, <<OldTier("speaker")>>, <<OldTier("notes")>>}}
    \cup {<<OldTier("speaker")>>,
          <<Entry("manual", [tierType |-> "TextTier", entryList |-> <<>>])>>}

NoRun == [pc |-> "start", caller |-> "", convention |-> NoPath, loaded |-> NoPath,
          source |-> SourcePath, dest |-> SourcePath, allow_override |-> FALSE,
          i |-> 1, exc |-> "", saved |-> FALSE]

\* the compact tier's entries in the open TextGrid
CompactEntries == Get(tg, parser._convention.options.compact_tier).entryList

\* _split_file with the save in a finally clause
AfterStep_finally(exc, more) == IF more /\ exc = "" THEN "entries" ELSE "save"

\* where _split_file goes after a step of process_textgrid: an exception
\* leaves the with block, otherwise the loop goes on or save is next
AfterStep(exc, more) ==
    IF exc # "" THEN "raised" ELSE IF more THEN "entries" ELSE "save"

InitSplit ==
    /\ data = None
    /\ loads = <<>>
    /\ parser = None
    /\ result = None
    /\ tagobjs = <<>>
    /\ tagop = NoTagOp
    /\ calls = None
    /\ tg = None
    /\ \E lart5 \in GridDocs, g \in SourceGrids :
          disk = [conv |-> <<Entry(Lart5Path, lart5), Entry(MinePath, MineDoc)>>,
                  grid |-> <<Entry(SourcePath, g)>>]
    /\ run = NoRun

\* holltwr split SOURCE [-c option] [-d dest], up to the call of _split_file
SplitCommand ==
    /\ run.pc = "start"
    /\ \E option \in ConvPaths \cup {NoPath}, default \in ConvPaths \cup {NoPath},
          dest \in GridPaths :
          LET convention == IF option # NoPath THEN option ELSE default
          IN  run' = IF convention = NoPath
                     THEN [run EXCEPT !.pc = "exit", !.caller = "split",
                                      !.exc = "GENERAL_ERROR"]
                     ELSE [run EXCEPT !.pc = "split_file", !.caller = "split",
                                      !.convention = convention, !.dest = dest]
    /\ UNCHANGED <<data, loads, parser, result, tagobjs, tagop, parvars, tg, disk>>

\* Convention.load(path), AnnotationParser(convention), TextGrid(source), by
\* the caller whose arguments are in r0
OpenWith(r0, path) ==
    LET r == Convention_fromdata(Get(disk.conv, path))
    IN  /\ data' = r.data
        /\ loads' = Append(loads, r)
        /\ IF r.exc # ""
           THEN /\ run' = [r0 EXCEPT !.pc = "raised", !.loaded = path, !.exc = r.exc]
                /\ UNCHANGED <<parser, tg>>
           ELSE /\ parser' = AnnotationParser_init(r.obj, None)
                /\ tg' = Get(disk.grid, r0.source)
                /\ run' = [r0 EXCEPT !.pc = "prepare", !.loaded = path]
        /\ UNCHANGED <<result, tagobjs, tagop, parvars, disk>>

\* _split_file(source, dest) up to the call of process_textgrid(tg, parser)
SplitFileOpen ==
    /\ run.pc = "split_file"
    /\ OpenWith(run, Lart5Path)

\* a program that loads the convention of its choice and is about to call
\* process_textgrid(tg, parser, allow_override=allow_override)
LibraryOpen ==
    /\ run.pc = "start"
    /\ \E path \in ConvPaths, allow_override \in BOOLEAN, dest \in GridPaths :
          OpenWith([run EXCEPT !.caller = "library", !.convention = path, !.dest = dest,
                               !.allow_override = allow_override],
                   path)

\* prepare_textgrid(tg, parser.convention, allow_override=allow_override)
Prepare ==
    /\ run.pc = "prepare"
    /\ LET r == prepare_textgrid(tg, parser._convention, run.allow_override)
       IN  /\ tg' = r.tg
           /\ run' = [run EXCEPT !.exc = r.exc,
                                 !.pc = AfterStep(r.exc, r.exc = "" /\
                                           Len(Get(r.tg, parser._convention.options.compact_tier)
                                                   .entryList) >= 1)]
    /\ UNCHANGED <<data, loads, parser, result, tagobjs, tagop, parvars, disk>>

\* one round of the loop of process_textgrid over the compact tier
ProcessEntry ==
    /\ run.pc = "entries"
    /\ LET r == process_entry(tg, parser, CompactEntries[run.i])
       IN  /\ tg' = r.tg
           /\ run' = [run EXCEPT !.exc = r.exc, !.i = run.i + 1,
                                 !.pc = AfterStep(r.exc, run.i + 1 <= Len(CompactEntries))]
    /\ UNCHANGED <<data, loads, parser, result, tagobjs, tagop, parvars, disk>>

\* tg.save(dest)
Save ==
    /\ run.pc = "save"
    /\ disk' = [disk EXCEPT !.grid = Put(disk.grid, run.dest, tg)]
    /\ run' = [run EXCEPT !.saved = TRUE, !.pc = IF run.exc # "" THEN "raised" ELSE "done"]
    /\ UNCHANGED <<data, loads, parser, result, tagobjs, tagop, parvars, tg>>

NextSplit == SplitCommand \/ SplitFileOpen \/ LibraryOpen \/ Prepare \/ ProcessEntry \/ Save

SpecSplit == InitSplit /\ [][NextSplit]_vars

----------------------------------------------------------------------------
(* Properties of process_textgrid and the split command *)

\* the source file as it is on disk
SourceGrid == Get(disk.grid, run.source)

\* process_textgrid has returned without raising and save has not run yet
Processed == run.pc = "save" /\ run.exc = ""

\* the tiers declared in the bound convention
Declared == Keys(parser._convention.tiers)

CompactTierName == parser._convention.options.compact_tier

\* the text parse gives for the named tier from a compact label
TierText(name, label) == AnnotationTier_join(Get(parse(parser, label).obj.tiers, name))

\* C13: once process_textgrid has completed without error, every declared
\* tier is in the TextGrid and has, for each interval of the compact tier, an
\* interval with the same start and end labelled with the joined text parse
\* gives for that tier; the compact tier is as it is in the source.
C13_TiersFilled ==
    Processed =>
        /\ Get(tg, CompactTierName) = Get(SourceGrid, CompactTierName)
        /\ \A t \in 1..Len(Declared) :
              /\ hastier(tg, Declared[t])
              /\ \A k \in 1..Len(CompactEntries) :
                    \E n \in 1..Len(Get(tg, Declared[t]).entryList) :
                        Get(tg, Declared[t]).entryList[n] =
                            Interval(CompactEntries[k].start, CompactEntries[k].end,
                                     TierText(Declared[t], CompactEntries[k].label))

\* two intervals, one with a comment, expanded into two tiers, one of which
\* replaced a tier the source already had
C13_Witness ==
    /\ Processed
    /\ Len(CompactEntries) = 2
    /\ CompactEntries[2].label = <<"a", "+", "x", "-", "n">>
    /\ Len(Declared) = 2
    /\ \E t \in 1..Len(Declared) : hastier(SourceGrid, Declared[t])
    /\ Get(tg, "speaker").entryList[1].label # <<>>

\* C14: after a successful process_textgrid and save, the compact tier is in
\* the saved TextGrid exactly when Options.retain_compact is true.
C14_CompactRetained ==
    (run.pc = "done" /\ run.exc = "") =>
        (hastier(Get(disk.grid, run.dest), CompactTierName)
            <=> parser._convention.options.retain_compact)

\* C16: the convention _split_file loads for a source file is the one
\* selected for the run (-c/--convention, else the configured default).
C16_SelectedConventionLoaded ==
    (run.caller = "split" /\ run.loaded # NoPath) => run.loaded = run.convention

\* C17: with allow_override false and a declared tier already in the
\* TextGrid, prepare_textgrid raises TextGridError and the TextGrid is as it
\* was before the call.
C17_PrepareLeavesGrid ==
    [][(/\ run.pc = "prepare"
        /\ ~run.allow_override
        /\ \E t \in 1..Len(Declared) : hastier(tg, Declared[t]))
       => (run'.exc = "TextGridError" /\ run'.pc = "raised" /\ tg' = tg)]_vars

\* prepare_textgrid has raised on a TextGrid that has the second declared
\* tier but not the first
C17_Witness ==
    /\ run.pc = "raised" /\ run.exc = "TextGridError" /\ ~run.allow_override
    /\ run.i = 1
    /\ Len(Declared) = 2
    /\ hastier(tg, Declared[2]) /\ ~hastier(tg, Declared[1])
    /\ check_compact_tier(tg, CompactTierName) = ""
    /\ tg = SourceGrid

\* C20: the files on disk change, and save is called, only in a step taken
\* when nothing has raised and every compact interval has been processed; a
\* run in which prepare_textgrid or a parse raised has saved nothing.
C20_SaveOnlyWhenComplete ==
    /\ [][(disk' # disk \/ run'.saved # run.saved)
          => (/\ run.pc = "save" /\ run.exc = ""
              /\ run.i = Len(CompactEntries) + 1
              /\ disk'.grid = Put(disk.grid, run.dest, tg))]_vars
    /\ [](run.exc # "" => ~run.saved)

\* the parse of the second interval raised after the first interval had been
\* written to the tiers in memory, and the destination file does not exist
C20_Witness ==
    /\ run.pc = "raised" /\ run.exc = "UnknownTagError"
    /\ run.i = 3
    /\ run.dest # run.source
    /\ ~HasKey(disk.grid, run.dest)
    /\ ~run.saved
    /\ tg # SourceGrid
    /\ \E t \in 1..Len(Declared) : Get(tg, Declared[t]).entryList[1].label # <<>>

----------------------------------------------------------------------------
(* The comment character inside a general tier *)

\* C15: in a general tier whose declared content holds the comment character,
\* every part has the fragment comment-marker output + comment text (empty
\* when the compact string has no comment) exactly once, with or without a
\* comment, and the fragments before it belong to characters declared before
\* the comment character, those after it to characters declared after it.
C15_CommentFragment ==
    Parsed =>
        \A i \in 1..Len(result.obj.tiers) :
            (ParsedTier(i).type = "GENERAL" /\ HasKey(ConvTier(i).content, <<Marker>>)) =>
                \A j \in 1..Len(ParsedTier(i).parts) :
                    LET part == ParsedTier(i).parts[j]
                        pos == DeclaredPos(ConvTier(i), Marker)
                    IN  /\ Cardinality(Positions(part.compact, Marker)) = 1
                        /\ \A m \in Positions(part.compact, Marker) :
                              /\ part.expanded[m] =
                                    parser._comment_marker.obj._output
                                    \o (IF result.comment = None THEN <<>>
                                        ELSE result.comment.val)
                              /\ \A n \in 1..Len(part.compact) :
                                    /\ n < m => DeclaredPos(ConvTier(i), part.compact[n]) < pos
                                    /\ n > m => DeclaredPos(ConvTier(i), part.compact[n]) > pos

\* no comment in the compact string, two parts, and a part whose comment
\* fragment, the marker's output alone, sits between two tag fragments
C15_Witness ==
    /\ Parsed
    /\ result.comment = None
    /\ \E i \in 1..Len(result.obj.tiers) :
          /\ ParsedTier(i).type = "GENERAL"
          /\ HasKey(ConvTier(i).content, <<Marker>>)
          /\ Len(ParsedTier(i).parts) = 2
          /\ \E j \in 1..2 :
                /\ Len(ParsedTier(i).parts[j].expanded) = 3
                /\ ParsedTier(i).parts[j].expanded[2] = <<"#", ":">>

----------------------------------------------------------------------------
(* The loaded Convention and the document it was loaded from *)

\* C18: in every Convention that Convention.fromdata returns no character is
\* a key of both tags and special_tags.
C18_NamespacesDisjoint ==
    \A i \in 1..Len(loads) :
        loads[i].exc = "" =>
            KeySet(loads[i].obj.tags) \cap KeySet(loads[i].obj.special_tags) = {}

\* C19: Convention.fromdata leaves the document it is given as it was, in
\* every call, whether the call returns a Convention or raises.
C19_DocumentUnchanged == [][data' = data]_vars

----------------------------------------------------------------------------
(* prepare_textgrid and the compact tier *)

\* C21: a call of prepare_textgrid on a TextGrid that has the compact tier
\* leaves that tier in the TextGrid with its intervals and labels, whether
\* the call returns or raises, whatever allow_override is and whatever tiers
\* the convention declares.
C21_CompactTierKept ==
    [][(run.pc = "prepare" /\ hastier(tg, CompactTierName))
       => (/\ hastier(tg', CompactTierName)
           /\ Get(tg', CompactTierName) = Get(tg, CompactTierName))]_vars

----------------------------------------------------------------------------
(* Repeated tag characters in a part *)

\* s with its character at position k written twice
Doubled(s, k) == SubSeq(s, 1, k) \o <<s[k]>> \o SubSeq(s, k + 1, Len(s))

\* C22: in a general tier no part has two fragments for the same declared
\* character, and writing a tag character of a one-part compact string twice
\* ("aa" for "a") changes neither the fragments nor the rendered text of any
\* tier.
C22_RepeatedTagOnce ==
    Parsed =>
        /\ \A i \in 1..Len(result.obj.tiers) :
              ParsedTier(i).type = "GENERAL" =>
                  \A j \in 1..Len(ParsedTier(i).parts) :
                      LET part == ParsedTier(i).parts[j]
                      IN  /\ Len(part.expanded) = Len(part.compact)
                          /\ \A m, n \in 1..Len(part.compact) :
                                part.compact[m] = part.compact[n] => m = n
        /\ Len(result.compact_parts) = 1 =>
              \A k \in 1..Len(result.remainder) :
                  LET again == parse(parser, Doubled(result.compact, k))
                  IN  /\ again.exc = ""
                      /\ again.obj.tiers = result.obj.tiers
                      /\ joined(again.obj) = joined(result.obj)

\* "aa" was parsed and a general tier has the one fragment of "a" for it
C22_Witness ==
    /\ Parsed
    /\ result.compact = <<"a", "a">>
    /\ \E i \in 1..Len(result.obj.tiers) :
          /\ ParsedTier(i).type = "GENERAL"
          /\ ParsedTier(i).parts[1].expanded = <<Researcher>>
          /\ parse(parser, <<"a">>).obj.tiers = result.obj.tiers

====
